---------------------------- MODULE Spec2Model ----------------------------
(* wave.py: allocation of a wave of orders against one inventory level.    *)
(* An Order is a record [ship_id, items]; items is the dict sku -> qty in  *)
(* insertion order, a sequence of records [sku, qty] with distinct skus.   *)
(* A level (boh) is a function from the SKUs that have a slot to their     *)
(* quantity.  Ship ids are numbered in ascending string order: ship id k   *)
(* stands for the k-th smallest SHIP_ID string of the wave.                *)
EXTENDS Integers, Sequences, FiniteSets, TLC

VARIABLES orders_by_id, orders, boh_loaded, boh, ready_orders, replen_orders,
          slot_orders, retry_orders, sku_hist, ordered_skus, slot_candidates,
          slot_results, idx, pc

(* main around check_orders.  rows are the lines of the wave file still to  *)
(* be grouped; bohs are the four levels (bohs_loaded as load_boh returned   *)
(* them), tier the level main is at and order_stats the results so far;     *)
(* args_report tells whether -r was given, fs is the set of paths that      *)
(* exist and exit_code the exit status (-1 while main runs).                *)
VARIABLES rows, bohs, bohs_loaded, tier, order_stats, args_report, fs, exit_code

\* what load_orders and check_orders leave alone
main_vars == <<rows, bohs, bohs_loaded, tier, order_stats, args_report, fs, exit_code>>

vars == <<orders_by_id, orders, boh_loaded, boh, ready_orders, replen_orders,
          slot_orders, retry_orders, sku_hist, ordered_skus, slot_candidates,
          slot_results, idx, pc, main_vars>>

-----------------------------------------------------------------------------
(* Bounds of the inputs.                                                   *)

\* the order lines of the wave file, over all its orders
MaxLines == 3

\* the largest quantity a level holds of a sku as it is loaded
MaxStock == 1

SKUS == {"X", "Y", "Z"}

\* the ORDQTY values of the order lines
Quantities == {1, 2}

Stocks == 0..MaxStock

\* the quantities of the contention and missing-sku examples
ExampleQuantities == {3, 5}

ExampleStocks == {1, 5}

\* the skus, quantities and stock of the end-to-end scenario
ScenarioSkus == {"A", "B"}

ScenarioQuantities == {1, 4, 8}

ScenarioStocks == {10}

AllSkus == SKUS \cup ScenarioSkus

-----------------------------------------------------------------------------
(* Dictionaries.                                                           *)

Range(s) == {s[i] : i \in 1..Len(s)}

\* the keys of an items dict or of the histogram, in insertion order
Keys(d) == [i \in 1..Len(d) |-> d[i].sku]

\* self.items[sku], 0 for a sku the order does not hold
QtyOf(items, sku) ==
    IF \E i \in 1..Len(items) : items[i].sku = sku
    THEN items[CHOOSE i \in 1..Len(items) : items[i].sku = sku].qty
    ELSE 0

-----------------------------------------------------------------------------
(* Order.commit                                                            *)

\* a feasibility loop in which the last item alone decides
can_commit_last(items, level, with_replen, i) ==
    \/ Len(items) = 0
    \/ LET sku == items[Len(items)].sku
           qty == items[Len(items)].qty
       IN ~(sku \notin DOMAIN level \/ (level[sku] < qty /\ ~with_replen))

\* a feasibility loop that never lets replenishment cover missing stock
can_commit_strict(items, level, with_replen, i) ==
    \A k \in i..Len(items) :
        items[k].sku \in DOMAIN level /\ level[items[k].sku] >= items[k].qty

\* the feasibility loop over self.items, from item i on
RECURSIVE can_commit(_, _, _, _)
can_commit(items, level, with_replen, i) ==
    IF i > Len(items) THEN TRUE
    ELSE LET sku == items[i].sku
             qty == items[i].qty
             rest == can_commit(items, level, with_replen, i + 1)
         IN IF sku \notin DOMAIN level \/ (level[sku] < qty /\ ~with_replen)
            THEN FALSE
            ELSE rest

\* a deduction loop that takes every item that is feasible on its own
RECURSIVE deduct_feasible(_, _, _)
deduct_feasible(items, level, i) ==
    IF i > Len(items) THEN level
    ELSE LET sku == items[i].sku
             qty == items[i].qty
         IN IF sku \in DOMAIN level /\ level[sku] >= qty
            THEN deduct_feasible(items, [level EXCEPT ![sku] = @ - qty], i + 1)
            ELSE deduct_feasible(items, level, i + 1)

\* the deduction loop: boh[sku] -= qty for every item, from item i on
RECURSIVE deduct(_, _, _)
deduct(items, level, i) ==
    IF i > Len(items) THEN level
    ELSE deduct(items, [level EXCEPT ![items[i].sku] = @ - items[i].qty], i + 1)

\* commit without the feasibility pre-check: a per-item deduction
commit_per_item(items, level, with_replen) ==
    LET ok == can_commit(items, level, with_replen, 1)
    IN [ok |-> ok,
        boh |-> IF ok THEN deduct(items, level, 1) ELSE deduct_feasible(items, level, 1)]

\* commit that treats insufficient stock as infeasible whatever with_replen is
commit_no_replen(items, level, with_replen) ==
    LET ok == can_commit(items, level, FALSE, 1)
    IN [ok |-> ok, boh |-> IF ok THEN deduct(items, level, 1) ELSE level]

\* commit that allows replenishment whatever with_replen is
commit_always_replen(items, level, with_replen) ==
    LET ok == can_commit(items, level, TRUE, 1)
    IN [ok |-> ok, boh |-> IF ok THEN deduct(items, level, 1) ELSE level]

\* commit that deducts only the first item of the order
commit_first_item(items, level, with_replen) ==
    LET ok == can_commit(items, level, with_replen, 1)
    IN [ok |-> ok,
        boh |-> IF ok THEN deduct(SubSeq(items, 1, 1), level, 1) ELSE level]

\* Order.commit(boh, with_replen): the returned flag and the dict as it is left
commit(items, level, with_replen) ==
    LET ok == can_commit(items, level, with_replen, 1)
    IN [ok |-> ok, boh |-> IF ok THEN deduct(items, level, 1) ELSE level]

-----------------------------------------------------------------------------
(* load_orders: the orders sorted by ship id.                              *)

\* insert order o into the ascending list s
RECURSIVE insert_by_id(_, _)
insert_by_id(s, o) ==
    IF s = <<>> THEN <<o>>
    ELSE IF o.ship_id < Head(s).ship_id THEN <<o>> \o s
    ELSE <<Head(s)>> \o insert_by_id(Tail(s), o)

RECURSIVE sort_by_id(_)
sort_by_id(s) ==
    IF s = <<>> THEN <<>>
    ELSE insert_by_id(sort_by_id(Tail(s)), Head(s))

\* the orders in the order the file names them first, unsorted
sorted_unsorted(by_id) == by_id

\* sorted(orders_by_id.items()), then the orders of the pairs
sorted_orders(by_id) == sort_by_id(by_id)

-----------------------------------------------------------------------------
(* check_orders: the missing-sku histogram and its ranking.                *)

HistHas(hist, sku) == \E i \in 1..Len(hist) : hist[i].sku = sku

HistPos(hist, sku) == CHOOSE i \in 1..Len(hist) : hist[i].sku = sku

\* sku_hist[sku]
HistGet(hist, sku) == hist[HistPos(hist, sku)].count

\* sku_hist[sku] = v: a new key goes last, a known key keeps its place
HistSet(hist, sku, v) ==
    IF HistHas(hist, sku)
    THEN [hist EXCEPT ![HistPos(hist, sku)].count = v]
    ELSE Append(hist, [sku |-> sku, count |-> v])

\* the tally of one missing sku: get, reset when there is no count, add qty
tally_sku(hist, sku, qty) ==
    LET h0 == IF ~HistHas(hist, sku) \/ HistGet(hist, sku) = 0
              THEN HistSet(hist, sku, 0)
              ELSE hist
    IN HistSet(h0, sku, HistGet(h0, sku) + qty)

\* a tally that counts every sku of a blocked order, present or not
RECURSIVE tally_all(_, _, _, _)
tally_all(items, level, hist, i) ==
    IF i > Len(items) THEN hist
    ELSE tally_all(items, level, tally_sku(hist, items[i].sku, items[i].qty), i + 1)

\* the tally loop over the items of a blocked order, from item i on
RECURSIVE tally(_, _, _, _)
tally(items, level, hist, i) ==
    IF i > Len(items) THEN hist
    ELSE IF items[i].sku \notin DOMAIN level
    THEN tally(items, level, tally_sku(hist, items[i].sku, items[i].qty), i + 1)
    ELSE tally(items, level, hist, i + 1)

\* an insertion that puts k before the keys of equal count
RECURSIVE insert_desc_ties_first(_, _, _)
insert_desc_ties_first(s, k, hist) ==
    IF s = <<>> THEN <<k>>
    ELSE IF HistGet(hist, Head(s)) <= HistGet(hist, k) THEN <<k>> \o s
    ELSE <<Head(s)>> \o insert_desc_ties_first(Tail(s), k, hist)

\* k inserted into the descending list s, after the keys of equal count
RECURSIVE insert_desc(_, _, _)
insert_desc(s, k, hist) ==
    IF s = <<>> THEN <<k>>
    ELSE IF HistGet(hist, Head(s)) < HistGet(hist, k) THEN <<k>> \o s
    ELSE <<Head(s)>> \o insert_desc(Tail(s), k, hist)

\* sorted(keys, key=sku_hist.__getitem__, reverse=True): a stable sort
RECURSIVE sorted_desc(_, _, _, _)
sorted_desc(keys, hist, i, acc) ==
    IF i > Len(keys) THEN acc
    ELSE sorted_desc(keys, hist, i + 1, insert_desc(acc, keys[i], hist))

-----------------------------------------------------------------------------
(* check_orders: one slot-candidate trial.                                 *)

\* trial_boh[s] = 0
SetZero(trial, s) ==
    [x \in DOMAIN trial \cup {s} |-> IF x = s THEN 0 ELSE trial[x]]

\* zeroing that makes only the newest candidate known
zero_newest(trial, cands, i) == SetZero(trial, cands[Len(cands)])

\* for s in slot_candidates: trial_boh[s] = 0, from candidate i on
RECURSIVE zero_candidates(_, _, _)
zero_candidates(trial, cands, i) ==
    IF i > Len(cands) THEN trial
    ELSE zero_candidates(SetZero(trial, cands[i]), cands, i + 1)

\* trial commits that do not allow replenishment
RECURSIVE trial_commits_no_replen(_, _, _, _)
trial_commits_no_replen(blocked, trial, i, addn) ==
    IF i > Len(blocked) THEN [boh |-> trial, addn |-> addn]
    ELSE LET c == commit(blocked[i].items, trial, FALSE)
         IN trial_commits_no_replen(blocked, c.boh, i + 1,
                                    IF c.ok THEN Append(addn, blocked[i]) ELSE addn)

\* the commits of the blocked orders against the trial dict, from order i on
RECURSIVE trial_commits(_, _, _, _)
trial_commits(blocked, trial, i, addn) ==
    IF i > Len(blocked) THEN [boh |-> trial, addn |-> addn]
    ELSE LET c == commit(blocked[i].items, trial, TRUE)
         IN trial_commits(blocked, c.boh, i + 1,
                          IF c.ok THEN Append(addn, blocked[i]) ELSE addn)

\* a trial run on the level itself instead of on a copy of it
run_trial_in_place(level, cands, blocked) ==
    LET t == trial_commits(blocked, zero_candidates(level, cands, 1), 1, <<>>)
    IN [boh |-> t.boh, trial_boh |-> t.boh, addn |-> t.addn]

\* one trial: the copy of the level, the candidates zeroed, the commits.
\* boh is the level as the trial leaves it, trial_boh the trial dict.
run_trial(level, cands, blocked) ==
    LET t == trial_commits(blocked, zero_candidates(level, cands, 1), 1, <<>>)
    IN [boh |-> level, trial_boh |-> t.boh, addn |-> t.addn]

\* an append that stores the candidate list itself, so every record sees it grow
append_result_shared(results, cands, addn, trial) ==
    Append([i \in 1..Len(results) |-> [results[i] EXCEPT !.skus = cands]],
           [skus |-> cands, addn |-> addn, boh |-> trial])

\* slot_results.append((list(slot_candidates), addn_orders, trial_boh))
append_result(results, cands, addn, trial) ==
    Append(results, [skus |-> cands, addn |-> addn, boh |-> trial])

-----------------------------------------------------------------------------
(* The inputs: a wave of orders and a level.                               *)

\* the items dicts of k lines over skus S and quantities Q
ItemsOfLen(S, Q, k) ==
    {s \in [1..k -> [sku : S, qty : Q]] :
        \A i, j \in 1..k : i # j => s[i].sku # s[j].sku}

\* the lists of items dicts with at most l lines in all
RECURSIVE Waves(_, _, _)
Waves(S, Q, l) ==
    {<<>>} \cup
    UNION {{<<o>> \o w : o \in ItemsOfLen(S, Q, k), w \in Waves(S, Q, l - k)} :
             k \in 1..(IF l < Cardinality(S) THEN l ELSE Cardinality(S))}

\* the levels over skus S with stock quantities T: a sku has a slot or not
Levels(S, T) == UNION {[K -> T] : K \in SUBSET S}

Perms(n) == {p \in [1..n -> 1..n] : \A i, j \in 1..n : i # j => p[i] # p[j]}

\* the dict orders_by_id, in the order the file first names each ship id
ById(w, p) == [i \in 1..Len(w) |-> [ship_id |-> p[i], items |-> w[i]]]

\* check_orders has not been entered
Locals ==
    /\ ready_orders = <<>>
    /\ replen_orders = <<>>
    /\ slot_orders = <<>>
    /\ retry_orders = <<>>
    /\ sku_hist = <<>>
    /\ ordered_skus = <<>>
    /\ slot_candidates = <<>>
    /\ slot_results = <<>>

\* one level, no report asked for
OneLevel ==
    /\ bohs = <<>>
    /\ bohs_loaded = <<>>
    /\ tier = 0
    /\ order_stats = <<>>
    /\ args_report = FALSE
    /\ fs = {}
    /\ exit_code = -1

InitWith(W, L) ==
    /\ \E w \in W : \E p \in Perms(Len(w)) : orders_by_id = ById(w, p)
    /\ boh_loaded \in L
    /\ boh = boh_loaded
    /\ rows = <<>>
    /\ OneLevel
    /\ orders = <<>>
    /\ ready_orders = <<>>
    /\ replen_orders = <<>>
    /\ slot_orders = <<>>
    /\ retry_orders = <<>>
    /\ sku_hist = <<>>
    /\ ordered_skus = <<>>
    /\ slot_candidates = <<>>
    /\ slot_results = <<>>
    /\ idx = 0
    /\ pc = "load"

\* the waves of at most two orders of one line each
OneLineWaves(S, Q) == UNION {[1..n -> ItemsOfLen(S, Q, 1)] : n \in 0..2}

\* the waves of three orders of one line each
ThreeOrderWaves(S, Q) == [1..3 -> ItemsOfLen(S, Q, 1)]

Init ==
    \/ InitWith(Waves(SKUS, Quantities, MaxLines), Levels(SKUS, Stocks))
    \/ InitWith(OneLineWaves(SKUS, ExampleQuantities), Levels(SKUS, ExampleStocks))
    \/ InitWith(ThreeOrderWaves(ScenarioSkus, ScenarioQuantities),
                Levels(ScenarioSkus, ScenarioStocks))

-----------------------------------------------------------------------------
(* The steps of main for one level: load_orders, then check_orders.        *)

\* orders = load_orders(args.wave_set)
LoadOrders ==
    /\ pc = "load"
    /\ orders' = sorted_orders(orders_by_id)
    /\ orders_by_id' = <<>>
    /\ idx' = 1
    /\ pc' = "pass1"
    /\ UNCHANGED <<boh_loaded, boh, ready_orders, replen_orders, slot_orders,
                   retry_orders, sku_hist, ordered_skus, slot_candidates,
                   slot_results>>
    /\ UNCHANGED main_vars

\* a ready-to-ship loop that puts a refused order at the head of retry_orders
Pass1Step_retry_first ==
    /\ pc = "pass1"
    /\ idx <= Len(orders)
    /\ LET order == orders[idx]
           c == commit(order.items, boh, FALSE)
       IN /\ boh' = c.boh
          /\ ready_orders' = IF c.ok THEN Append(ready_orders, order) ELSE ready_orders
          /\ retry_orders' = IF c.ok THEN retry_orders ELSE <<order>> \o retry_orders
    /\ idx' = idx + 1
    /\ UNCHANGED <<orders_by_id, orders, boh_loaded, replen_orders, slot_orders,
                   sku_hist, ordered_skus, slot_candidates, slot_results, pc>>
    /\ UNCHANGED main_vars

\* one iteration of the ready-to-ship loop
Pass1Step ==
    /\ pc = "pass1"
    /\ idx <= Len(orders)
    /\ LET order == orders[idx]
           c == commit(order.items, boh, FALSE)
       IN /\ boh' = c.boh
          /\ ready_orders' = IF c.ok THEN Append(ready_orders, order) ELSE ready_orders
          /\ retry_orders' = IF c.ok THEN retry_orders ELSE Append(retry_orders, order)
    /\ idx' = idx + 1
    /\ UNCHANGED <<orders_by_id, orders, boh_loaded, replen_orders, slot_orders,
                   sku_hist, ordered_skus, slot_candidates, slot_results, pc>>
    /\ UNCHANGED main_vars

\* the ready-to-ship loop ends, the loop over retry_orders begins
Pass1End ==
    /\ pc = "pass1"
    /\ idx > Len(orders)
    /\ idx' = 1
    /\ pc' = "pass2"
    /\ UNCHANGED <<orders_by_id, orders, boh_loaded, boh, ready_orders,
                   replen_orders, slot_orders, retry_orders, sku_hist,
                   ordered_skus, slot_candidates, slot_results>>
    /\ UNCHANGED main_vars

\* one iteration of the replen-or-slotting loop
Pass2Step ==
    /\ pc = "pass2"
    /\ idx <= Len(retry_orders)
    /\ LET order == retry_orders[idx]
           c == commit(order.items, boh, TRUE)
       IN /\ boh' = c.boh
          /\ replen_orders' = IF c.ok THEN Append(replen_orders, order) ELSE replen_orders
          /\ slot_orders' = IF c.ok THEN slot_orders ELSE Append(slot_orders, order)
          /\ sku_hist' = IF c.ok THEN sku_hist
                         ELSE tally(order.items, c.boh, sku_hist, 1)
    /\ idx' = idx + 1
    /\ UNCHANGED <<orders_by_id, orders, boh_loaded, ready_orders, retry_orders,
                   ordered_skus, slot_candidates, slot_results, pc>>
    /\ UNCHANGED main_vars

\* the loop over retry_orders ends: the missing skus are ranked
Rank ==
    /\ pc = "pass2"
    /\ idx > Len(retry_orders)
    /\ ordered_skus' = sorted_desc(Keys(sku_hist), sku_hist, 1, <<>>)
    /\ slot_results' = <<>>
    /\ slot_candidates' = <<>>
    /\ idx' = 1
    /\ pc' = "slot"
    /\ UNCHANGED <<orders_by_id, orders, boh_loaded, boh, ready_orders,
                   replen_orders, slot_orders, retry_orders, sku_hist>>
    /\ UNCHANGED main_vars

\* one iteration of the loop over ordered_skus: one trial
SlotStep ==
    /\ pc = "slot"
    /\ idx <= Len(ordered_skus)
    /\ LET cands == Append(slot_candidates, ordered_skus[idx])
           t == run_trial(boh, cands, slot_orders)
       IN /\ slot_candidates' = cands
          /\ boh' = t.boh
          /\ slot_results' = append_result(slot_results, cands, t.addn, t.trial_boh)
    /\ idx' = idx + 1
    /\ UNCHANGED <<orders_by_id, orders, boh_loaded, ready_orders, replen_orders,
                   slot_orders, retry_orders, sku_hist, ordered_skus, pc>>
    /\ UNCHANGED main_vars

\* return ready_orders, replen_orders, slot_results
Return ==
    /\ pc = "slot"
    /\ idx > Len(ordered_skus)
    /\ pc' = "done"
    /\ UNCHANGED <<orders_by_id, orders, boh_loaded, boh, ready_orders,
                   replen_orders, slot_orders, retry_orders, sku_hist,
                   ordered_skus, slot_candidates, slot_results, idx>>
    /\ UNCHANGED main_vars

Next ==
    \/ LoadOrders
    \/ Pass1Step
    \/ Pass1End
    \/ Pass2Step
    \/ Rank
    \/ SlotStep
    \/ Return

Spec == Init /\ [][Next]_vars

-----------------------------------------------------------------------------
(* load_orders line by line: the rows of the wave file grouped by ship id.  *)

\* the ship ids, skus and quantities of the rows of the wave file
RowShipIds == {1, 2}

RowSkus == {"X", "Y"}

RowQuantities == {3, 4}

RowSet == [ship_id : RowShipIds, sku : RowSkus, qty : RowQuantities]

\* self.items[sku] = v on the items dict: a new key goes last
ItemsSet(items, sku, v) ==
    IF \E i \in 1..Len(items) : items[i].sku = sku
    THEN [items EXCEPT ![CHOOSE i \in 1..Len(items) : items[i].sku = sku].qty = v]
    ELSE Append(items, [sku |-> sku, qty |-> v])

\* an add_item that keeps the quantity of the latest line only
add_item_overwrite(items, sku, qty) == ItemsSet(items, sku, qty)

\* Order.add_item(sku, qty)
add_item(items, sku, qty) ==
    LET i0 == IF \E i \in 1..Len(items) : items[i].sku = sku
              THEN items
              ELSE ItemsSet(items, sku, 0)
    IN ItemsSet(i0, sku, QtyOf(i0, sku) + qty)

\* orders_by_id.get(ship_id) finds an order
HasOrder(by_id, ship_id) == \E i \in 1..Len(by_id) : by_id[i].ship_id = ship_id

\* the body of the loop over the rows: get or create the order, add the item
add_row(by_id, row) ==
    LET known == IF HasOrder(by_id, row.ship_id)
                 THEN by_id
                 ELSE Append(by_id, [ship_id |-> row.ship_id, items |-> <<>>])
        k == CHOOSE i \in 1..Len(known) : known[i].ship_id = row.ship_id
    IN [known EXCEPT ![k].items = add_item(@, row.sku, row.qty)]

InitLoad ==
    /\ rows \in UNION {[1..n -> RowSet] : n \in 1..MaxLines}
    /\ orders_by_id = <<>>
    /\ orders = <<>>
    /\ boh_loaded \in Levels(SKUS, Stocks)
    /\ boh = boh_loaded
    /\ Locals
    /\ OneLevel
    /\ idx = 1
    /\ pc = "read"

\* one iteration of the loop over the rows of the wave file
ReadRow ==
    /\ pc = "read"
    /\ idx <= Len(rows)
    /\ orders_by_id' = add_row(orders_by_id, rows[idx])
    /\ idx' = idx + 1
    /\ UNCHANGED <<orders, boh_loaded, boh, ready_orders, replen_orders,
                   slot_orders, retry_orders, sku_hist, ordered_skus,
                   slot_candidates, slot_results, pc, main_vars>>

\* the file is read through: the orders are to be sorted
ReadEnd ==
    /\ pc = "read"
    /\ idx > Len(rows)
    /\ pc' = "load"
    /\ UNCHANGED <<orders_by_id, orders, boh_loaded, boh, ready_orders,
                   replen_orders, slot_orders, retry_orders, sku_hist,
                   ordered_skus, slot_candidates, slot_results, idx, main_vars>>

NextLoad ==
    \/ ReadRow
    \/ ReadEnd
    \/ Next

SpecLoad == InitLoad /\ [][NextLoad]_vars

-----------------------------------------------------------------------------
(* main: check_orders for each of the four levels, then the report.        *)

\* bohs = [{}, {}, {}, {}]
NumTiers == 4

\* levels = [1, 3, 4, 6]
LevelNames == <<1, 3, 4, 6>>

\* the order lines of the wave file when all four levels are run
MaxTierLines == 2

\* the levels of the four-level runs: X has a slot or not, Y and Z have none
TierStocks == {0, 1}

TierLevels == Levels({"X"}, TierStocks)

\* args.report, and what it holds when it exists before the run
ReportRoot == <<"report">>

ExistingDest == {ReportRoot, <<"report", 0, "old.csv">>}

\* os.path.exists that never finds the destination
exists_never(path, files) == FALSE

\* os.path.exists(path)
exists(path, files) == path \in files

\* a loop over one dict shared by all tiers: the level the last tier left
next_level_shared(levels, t, left) == left

\* for boh in bohs: the dict the t-th iteration works on
next_level(levels, t, left) == levels[t]

\* the directories and files the report makes for the i-th level
level_paths(i, stats) ==
    LET base == <<"report", LevelNames[i]>>
        wave_set == stats.ready \o stats.replen
    IN {ReportRoot, base}
       \cup (IF stats.ready # <<>> THEN {Append(base, "ready_orders.csv")} ELSE {})
       \cup (IF wave_set # <<>> THEN {Append(base, "ready_replen_orders.csv")} ELSE {})
       \cup (IF stats.replen # <<>> THEN {Append(base, "boh.csv")} ELSE {})
       \cup UNION {LET slot_dir == base \o <<"slot", Len(stats.slots[k].skus)>>
                   IN {slot_dir, Append(slot_dir, "orders.csv"),
                       Append(slot_dir, "skus.csv"), Append(slot_dir, "boh.csv")} :
                   k \in 1..Len(stats.slots)}

InitMain ==
    /\ \E w \in Waves(RowSkus, Quantities, MaxTierLines) :
          \E p \in Perms(Len(w)) : orders_by_id = ById(w, p)
    /\ rows = <<>>
    /\ orders = <<>>
    /\ bohs \in [1..NumTiers -> TierLevels]
    /\ bohs_loaded = bohs
    /\ tier = 1
    /\ boh = bohs[1]
    /\ boh_loaded = bohs[1]
    /\ order_stats = <<>>
    /\ args_report \in BOOLEAN
    /\ fs \in {{}, ExistingDest}
    /\ exit_code = -1
    /\ Locals
    /\ idx = 0
    /\ pc = "load"

\* order_stats.append(check_orders(orders, boh)), then the next level if any
NextTier ==
    /\ pc = "done"
    /\ tier \in 1..NumTiers
    /\ order_stats' = Append(order_stats, [ready |-> ready_orders,
                                           replen |-> replen_orders,
                                           slots |-> slot_results])
    /\ bohs' = [bohs EXCEPT ![tier] = boh]
    /\ ready_orders' = <<>>
    /\ replen_orders' = <<>>
    /\ slot_orders' = <<>>
    /\ retry_orders' = <<>>
    /\ sku_hist' = <<>>
    /\ ordered_skus' = <<>>
    /\ slot_candidates' = <<>>
    /\ slot_results' = <<>>
    /\ idx' = 1
    /\ IF tier < NumTiers
       THEN /\ tier' = tier + 1
            /\ boh' = next_level(bohs, tier + 1, boh)
            /\ boh_loaded' = next_level(bohs, tier + 1, boh)
            /\ pc' = "pass1"
       ELSE /\ pc' = "report"
            /\ UNCHANGED <<tier, boh, boh_loaded>>
    /\ UNCHANGED <<orders_by_id, orders, rows, bohs_loaded, args_report, fs,
                   exit_code>>

\* if args.report: the destination is checked; without -r main ends
ReportCheck ==
    /\ pc = "report"
    /\ tier' = 1
    /\ IF ~args_report
       THEN pc' = "exit" /\ exit_code' = 0
       ELSE IF exists(ReportRoot, fs)
       THEN pc' = "exit" /\ exit_code' = 1
       ELSE pc' = "write" /\ exit_code' = exit_code
    /\ UNCHANGED <<orders_by_id, orders, boh_loaded, boh, ready_orders,
                   replen_orders, slot_orders, retry_orders, sku_hist,
                   ordered_skus, slot_candidates, slot_results, idx, rows, bohs,
                   bohs_loaded, order_stats, args_report, fs>>

\* one iteration of the loop over the levels of the report
WriteLevel ==
    /\ pc = "write"
    /\ tier <= NumTiers
    /\ fs' = fs \cup level_paths(tier, order_stats[tier])
    /\ tier' = tier + 1
    /\ UNCHANGED <<orders_by_id, orders, boh_loaded, boh, ready_orders,
                   replen_orders, slot_orders, retry_orders, sku_hist,
                   ordered_skus, slot_candidates, slot_results, idx, pc, rows,
                   bohs, bohs_loaded, order_stats, args_report, exit_code>>

\* the report is written: main ends
MainEnd ==
    /\ pc = "write"
    /\ tier > NumTiers
    /\ pc' = "exit"
    /\ exit_code' = 0
    /\ UNCHANGED <<orders_by_id, orders, boh_loaded, boh, ready_orders,
                   replen_orders, slot_orders, retry_orders, sku_hist,
                   ordered_skus, slot_candidates, slot_results, idx, rows, bohs,
                   bohs_loaded, tier, order_stats, args_report, fs>>

NextMain ==
    \/ Next
    \/ NextTier
    \/ ReportCheck
    \/ WriteLevel
    \/ MainEnd

SpecMain == InitMain /\ [][NextMain]_vars

-----------------------------------------------------------------------------
(* check_orders as one call: what it returns and how it leaves the level.  *)

\* the ready-to-ship loop, from order i on
RECURSIVE pass1(_, _, _, _, _)
pass1(os, level, i, ready, retry) ==
    IF i > Len(os) THEN [boh |-> level, ready |-> ready, retry |-> retry]
    ELSE LET c == commit(os[i].items, level, FALSE)
         IN IF c.ok
            THEN pass1(os, c.boh, i + 1, Append(ready, os[i]), retry)
            ELSE pass1(os, c.boh, i + 1, ready, Append(retry, os[i]))

\* the replen-or-slotting loop, from retried order i on
RECURSIVE pass2(_, _, _, _, _, _)
pass2(retry, level, i, replen, blocked, hist) ==
    IF i > Len(retry)
    THEN [boh |-> level, replen |-> replen, blocked |-> blocked, hist |-> hist]
    ELSE LET c == commit(retry[i].items, level, TRUE)
         IN IF c.ok
            THEN pass2(retry, c.boh, i + 1, Append(replen, retry[i]), blocked, hist)
            ELSE pass2(retry, c.boh, i + 1, replen, Append(blocked, retry[i]),
                       tally(retry[i].items, c.boh, hist, 1))

\* the loop over ordered_skus, from the k-th ranked sku on
RECURSIVE trials(_, _, _, _, _)
trials(ranked, level, blocked, k, results) ==
    IF k > Len(ranked) THEN [boh |-> level, slots |-> results]
    ELSE LET cands == SubSeq(ranked, 1, k)
             t == run_trial(level, cands, blocked)
         IN trials(ranked, t.boh, blocked, k + 1,
                   append_result(results, cands, t.addn, t.trial_boh))

\* check_orders(orders, boh): the returned triple, and boh as it is left
check_orders(os, level) ==
    LET p1 == pass1(os, level, 1, <<>>, <<>>)
        p2 == pass2(p1.retry, p1.boh, 1, <<>>, <<>>, <<>>)
        ranked == sorted_desc(Keys(p2.hist), p2.hist, 1, <<>>)
        tr == trials(ranked, p2.boh, p2.blocked, 1, <<>>)
    IN [ready |-> p1.ready, replen |-> p2.replen, slots |-> tr.slots,
        boh |-> tr.boh]

-----------------------------------------------------------------------------
(* What the claims speak of, stated from the inputs and the lists.         *)

\* every sku of the order has a slot and, without replenishment, the stock
Feasible(items, level, with_replen) ==
    \A i \in 1..Len(items) :
        /\ items[i].sku \in DOMAIN level
        /\ (level[items[i].sku] >= items[i].qty \/ with_replen)

\* the quantity the orders of the list os request of sku in all
RECURSIVE SumQty(_, _)
SumQty(os, sku) ==
    IF os = <<>> THEN 0 ELSE QtyOf(Head(os).items, sku) + SumQty(Tail(os), sku)

\* the level less the quantities of every order of the list os
Less(level, os) == [s \in DOMAIN level |-> level[s] - SumQty(os, s)]

Last(s) == s[Len(s)]

InPass1Step == pc = "pass1" /\ idx <= Len(orders)

InPass2Step == pc = "pass2" /\ idx <= Len(retry_orders)

\* C1: a commit that returns false leaves the inventory mapping as it was
\* (same keys, same quantities), in the ready pass (with_replen false) and
\* in the replenishment pass (with_replen true) alike.
C1_FailedCommitLeavesInventory ==
    [][/\ (InPass1Step /\ retry_orders' # retry_orders) => boh' = boh
       /\ (InPass2Step /\ slot_orders' # slot_orders) => boh' = boh]_vars

\* a commit has just failed for an order one of whose items was feasible alone
C1_Witness ==
    /\ pc = "pass2"
    /\ idx > 1
    /\ slot_orders # <<>>
    /\ Last(slot_orders) = retry_orders[idx - 1]
    /\ \E i \in 1..Len(Last(slot_orders).items) :
          LET it == Last(slot_orders).items[i]
          IN it.sku \in DOMAIN boh /\ boh[it.sku] >= it.qty

\* C2: commit returns true exactly when every sku of the order is a key of
\* the level and each item has the stock or replenishment is allowed; then
\* each item's quantity is subtracted once and no key is added or removed.
C2_CommitContract ==
    [][/\ InPass1Step =>
            LET items == orders[idx].items
                ok == ready_orders' # ready_orders
            IN /\ ok <=> Feasible(items, boh, FALSE)
               /\ ok => boh' = [s \in DOMAIN boh |-> boh[s] - QtyOf(items, s)]
       /\ InPass2Step =>
            LET items == retry_orders[idx].items
                ok == replen_orders' # replen_orders
            IN /\ ok <=> Feasible(items, boh, TRUE)
               /\ ok => boh' = [s \in DOMAIN boh |-> boh[s] - QtyOf(items, s)]]_vars

\* an order of two lines has just been committed with replenishment, one sku
\* driven negative and another sku of the level untouched
C2_Witness ==
    /\ pc = "pass2"
    /\ idx > 1
    /\ replen_orders # <<>>
    /\ Last(replen_orders) = retry_orders[idx - 1]
    /\ Len(Last(replen_orders).items) = 2
    /\ \E s \in DOMAIN boh : boh[s] < 0
    /\ \E s \in DOMAIN boh : QtyOf(Last(replen_orders).items, s) = 0

\* C3: all through Pass 1 and Pass 2, for each sku the loaded quantity less
\* the level's quantity is the sum of the quantities of the orders in ready
\* and replen, each once; blocked orders deduct nothing.
C3_Conservation ==
    pc \in {"pass1", "pass2"} =>
        /\ DOMAIN boh = DOMAIN boh_loaded
        /\ \A s \in DOMAIN boh_loaded :
              boh_loaded[s] - boh[s]
                = SumQty(ready_orders, s) + SumQty(replen_orders, s)

\* Pass 2 is over with a replenished and a blocked order, the blocked one
\* requesting a sku of the level
C3_Witness ==
    /\ pc = "pass2"
    /\ idx > Len(retry_orders)
    /\ replen_orders # <<>>
    /\ slot_orders # <<>>
    /\ \E i \in 1..Len(slot_orders) : \E s \in DOMAIN boh :
          QtyOf(slot_orders[i].items, s) > 0

A001 == [ship_id |-> 1, items |-> <<[sku |-> "X", qty |-> 5]>>]

A002 == [ship_id |-> 2, items |-> <<[sku |-> "X", qty |-> 5]>>]

ContentionCase ==
    /\ pc # "load"
    /\ Range(orders) = {A001, A002}
    /\ boh_loaded = [s \in {"X"} |-> 5]

\* C4: the orders are attempted in ascending ship id order; with A001 {X:5}
\* and A002 {X:5} against {X:5}, the ready pass (replenishment disallowed)
\* commits A001 and refuses A002, whatever the order of the wave file.
C4_FirstComeFirstServed ==
    /\ pc # "load" =>
          \A i, j \in 1..Len(orders) : i < j => orders[i].ship_id < orders[j].ship_id
    /\ pc = "pass1" =>
          Range(ready_orders) \cup Range(retry_orders) = {orders[i] : i \in 1..(idx - 1)}
    /\ (ContentionCase /\ pc = "pass1" /\ idx = 2) =>
          ready_orders = <<A001>> /\ retry_orders = <<>> /\ boh["X"] = 0
    /\ (ContentionCase /\ pc = "pass2") =>
          ready_orders = <<A001>> /\ retry_orders = <<A002>> /\ boh_loaded["X"] = 5

\* the ready pass of the contention example is over
C4_Witness ==
    /\ ContentionCase
    /\ pc = "pass2"
    /\ idx = 1
    /\ ready_orders = <<A001>>
    /\ retry_orders = <<A002>>
    /\ boh = [s \in {"X"} |-> 0]

\* every sku of the order is a key of the level
AllPresent(items, level) == \A i \in 1..Len(items) : items[i].sku \in DOMAIN level

\* the order Pass 2 is about to attempt has all its skus in the level and
\* lacks stock for at least one of them
InsufficientButPresent ==
    /\ InPass2Step
    /\ AllPresent(retry_orders[idx].items, boh)
    /\ ~Feasible(retry_orders[idx].items, boh, FALSE)

\* C5 as stated: an order that comes to Pass 2 with every sku present and
\* too little stock (such as {Y:3} against {Y:1}) is added to the blocked
\* list and adds nothing to the histogram.
C5_InsufficientIsBlocked ==
    [][InsufficientButPresent =>
          /\ slot_orders' = Append(slot_orders, retry_orders[idx])
          /\ sku_hist' = sku_hist]_vars

\* C5 amended: an order that comes to Pass 2 with every sku present is
\* committed with replenishment: it is appended to the replenishment list,
\* its quantities are deducted, the blocked list and the histogram stay as
\* they are.  Insufficient-but-present stock never blocks an order.
C5_InsufficientIsReplenished ==
    [][(InPass2Step /\ AllPresent(retry_orders[idx].items, boh)) =>
          /\ replen_orders' = Append(replen_orders, retry_orders[idx])
          /\ slot_orders' = slot_orders
          /\ sku_hist' = sku_hist
          /\ boh' = Less(boh, <<retry_orders[idx]>>)]_vars

\* the order {Y:3} has met the level {Y:1} and is a replenishment order
C5_Witness ==
    /\ pc = "pass2"
    /\ idx = 2
    /\ boh_loaded = [s \in {"Y"} |-> 1]
    /\ retry_orders = <<[ship_id |-> 1, items |-> <<[sku |-> "Y", qty |-> 3]>>]>>
    /\ replen_orders = retry_orders
    /\ slot_orders = <<>>
    /\ sku_hist = <<>>
    /\ boh = [s \in {"Y"} |-> -2]

\* C6: through Pass 2 and after it, a sku is a key of the histogram exactly
\* when a blocked order requests it and the level has no key for it; its
\* entry is the sum of its quantities over the blocked orders; each key is
\* held once.
C6_Histogram ==
    pc \in {"pass2", "slot", "done"} =>
        /\ \A i, j \in 1..Len(sku_hist) : i # j => sku_hist[i].sku # sku_hist[j].sku
        /\ \A s \in AllSkus :
              /\ HistHas(sku_hist, s) <=>
                    (s \notin DOMAIN boh /\
                     \E i \in 1..Len(slot_orders) : QtyOf(slot_orders[i].items, s) > 0)
              /\ HistHas(sku_hist, s) => HistGet(sku_hist, s) = SumQty(slot_orders, s)

\* Pass 2 is over; two blocked orders request the same missing sku, and a
\* blocked order also requests a sku the level holds
C6_Witness ==
    /\ pc = "slot"
    /\ Len(slot_orders) = 2
    /\ \E s \in SKUS :
          /\ HistHas(sku_hist, s)
          /\ QtyOf(slot_orders[1].items, s) > 0
          /\ QtyOf(slot_orders[2].items, s) > 0
    /\ \E i \in 1..2 : \E s \in DOMAIN boh : QtyOf(slot_orders[i].items, s) > 0

\* the places (blocked order, then line of the order) where Pass 2 met sku s
Places(s) ==
    UNION {{i * (Cardinality(SKUS) + 1) + j :
               j \in {k \in 1..Len(slot_orders[i].items) : slot_orders[i].items[k].sku = s}} :
           i \in 1..Len(slot_orders)}

\* the place where Pass 2 first recorded sku s
FirstSeen(s) == CHOOSE n \in Places(s) : \A m \in Places(s) : n <= m

\* C7: the ranking lists every histogram key once, in non-increasing order
\* of accumulated quantity, and two skus of equal total stand in the order
\* in which Pass 2 first recorded them, whatever their sku values.
C7_Ranking ==
    pc \in {"slot", "done"} =>
        /\ Len(ordered_skus) = Len(sku_hist)
        /\ Range(ordered_skus) = Range(Keys(sku_hist))
        /\ \A i, j \in 1..Len(ordered_skus) : i < j =>
              LET a == ordered_skus[i]
                  b == ordered_skus[j]
              IN /\ a # b
                 /\ HistGet(sku_hist, a) >= HistGet(sku_hist, b)
                 /\ HistGet(sku_hist, a) = HistGet(sku_hist, b)
                      => FirstSeen(a) < FirstSeen(b)

\* the histogram was built in the order Z, X, Y; Y has the largest total and
\* Z and X are tied, so the ranking is Y, Z, X
C7_Witness ==
    /\ pc = "slot"
    /\ Keys(sku_hist) = <<"Z", "X", "Y">>
    /\ HistGet(sku_hist, "Z") = HistGet(sku_hist, "X")
    /\ HistGet(sku_hist, "Y") > HistGet(sku_hist, "Z")
    /\ ordered_skus = <<"Y", "Z", "X">>

\* C8: there is one record per trial run, at the end one per histogram key;
\* the k-th record's skus are the first k skus of the ranking, so each
\* record's skus are the previous record's with one sku appended, and the
\* records already made stay as they were.
C8_PrefixRecords ==
    pc \in {"slot", "done"} =>
        /\ Len(slot_results) = idx - 1
        /\ \A k \in 1..Len(slot_results) :
              slot_results[k].skus = SubSeq(ordered_skus, 1, k)
        /\ \A k \in 2..Len(slot_results) :
              slot_results[k].skus
                = Append(slot_results[k - 1].skus, ordered_skus[k])
        /\ pc = "done" => Len(slot_results) = Len(sku_hist)

\* check_orders has returned three records
C8_Witness ==
    /\ pc = "done"
    /\ Len(slot_results) = 3
    /\ Len(slot_results[1].skus) = 1
    /\ Len(slot_results[3].skus) = 3

\* the level as Pass 2 leaves it, from the loaded level and the two lists
Pass2Final == Less(boh_loaded, ready_orders \o replen_orders)

\* the Pass-2-final level with the skus of cands set to 0
WithSlots(cands) ==
    [s \in DOMAIN Pass2Final \cup Range(cands) |->
        IF s \in Range(cands) THEN 0 ELSE Pass2Final[s]]

\* C9: the k-th record's inventory is the Pass-2-final level with the first
\* k ranked skus set to 0, less the quantities of exactly the orders that
\* record unlocks; no deduction of another trial is in it.
C9_IndependentTrials ==
    pc \in {"slot", "done"} =>
        \A k \in 1..Len(slot_results) :
            slot_results[k].boh
              = Less(WithSlots(SubSeq(ordered_skus, 1, k)), slot_results[k].addn)

\* two trials have run, the first unlocked an order and the second another
C9_Witness ==
    /\ pc \in {"slot", "done"}
    /\ Len(slot_results) >= 2
    /\ slot_results[1].addn # <<>>
    /\ Len(slot_results[2].addn) > Len(slot_results[1].addn)

\* C10: from the end of Pass 2 to the return of check_orders the level keeps
\* its keys and quantities: no trial adds a candidate sku to it or deducts
\* from it.
C10_SearchLeavesLevel ==
    [][(pc = "slot" \/ (pc = "pass2" /\ idx > Len(retry_orders))) => boh' = boh]_vars

\* check_orders has returned, a trial unlocked an order, and the level is
\* still the Pass-2-final level, without the candidate skus
C10_Witness ==
    /\ pc = "done"
    /\ slot_results # <<>>
    /\ Last(slot_results).addn # <<>>
    /\ boh = Pass2Final
    /\ DOMAIN boh \cap Range(ordered_skus) = {}
    /\ Last(slot_results).boh # boh

S1 == [ship_id |-> 1, items |-> <<[sku |-> "A", qty |-> 4]>>]

S2 == [ship_id |-> 2, items |-> <<[sku |-> "A", qty |-> 8]>>]

S3 == [ship_id |-> 3, items |-> <<[sku |-> "B", qty |-> 1]>>]

EndToEndCase ==
    /\ pc # "load"
    /\ orders = <<S1, S2, S3>>
    /\ boh_loaded = [s \in {"A"} |-> 10]

\* C11: with the level {A:10} (no B) and the orders S1 {A:4}, S2 {A:8},
\* S3 {B:1}: S1 is ready and A becomes 6, S2 is a replenishment order and A
\* becomes -2, S3 is blocked with histogram {B:1}, and the one slot
\* candidate record has the skus [B] and unlocks S3.
C11_EndToEnd ==
    /\ (EndToEndCase /\ pc = "pass1" /\ idx = 2) =>
          ready_orders = <<S1>> /\ boh["A"] = 6
    /\ (EndToEndCase /\ pc = "pass2" /\ idx = 1) =>
          ready_orders = <<S1>> /\ retry_orders = <<S2, S3>> /\ boh["A"] = 6
    /\ (EndToEndCase /\ pc = "pass2" /\ idx = 2) =>
          replen_orders = <<S2>> /\ boh["A"] = -2
    /\ (EndToEndCase /\ pc \in {"slot", "done"}) =>
          /\ ready_orders = <<S1>>
          /\ replen_orders = <<S2>>
          /\ slot_orders = <<S3>>
          /\ sku_hist = <<[sku |-> "B", count |-> 1]>>
          /\ ordered_skus = <<"B">>
          /\ boh = [s \in {"A"} |-> -2]
    /\ (EndToEndCase /\ pc = "done") =>
          /\ Len(slot_results) = 1
          /\ slot_results[1].skus = <<"B">>
          /\ slot_results[1].addn = <<S3>>

\* check_orders has returned in the end-to-end scenario
C11_Witness ==
    /\ EndToEndCase
    /\ pc = "done"
    /\ slot_results =
          <<[skus |-> <<"B">>, addn |-> <<S3>>,
             boh |-> [s \in {"A", "B"} |-> IF s = "A" THEN -2 ELSE -1]]>>

\* s is a subsequence of t: the elements of s, in their order, are in t
RECURSIVE IsSubSeq(_, _)
IsSubSeq(s, t) ==
    IF s = <<>> THEN TRUE
    ELSE IF t = <<>> THEN FALSE
    ELSE IF Head(s) = Head(t) THEN IsSubSeq(Tail(s), Tail(t))
    ELSE IsSubSeq(s, Tail(t))

\* how many times x stands in the list s
Count(s, x) == Cardinality({i \in 1..Len(s) : s[i] = x})

\* C15: once Pass 2 is over every input order is in exactly one of the
\* ready, replenishment and blocked lists, once; each list keeps the orders
\* in their input order (ascending ship id).
C15_Partition ==
    (pc \in {"slot", "done"} \/ (pc = "pass2" /\ idx > Len(retry_orders))) =>
        /\ \A i \in 1..Len(orders) :
              Count(ready_orders, orders[i]) + Count(replen_orders, orders[i])
                + Count(slot_orders, orders[i]) = 1
        /\ Len(ready_orders) + Len(replen_orders) + Len(slot_orders) = Len(orders)
        /\ IsSubSeq(ready_orders, orders)
        /\ IsSubSeq(replen_orders, orders)
        /\ IsSubSeq(slot_orders, orders)

\* Pass 2 is over with one order in each of the three lists
C15_Witness ==
    /\ pc = "slot"
    /\ Len(ready_orders) = 1
    /\ Len(replen_orders) = 1
    /\ Len(slot_orders) = 1

\* C16: once Pass 2 is over an order is in the blocked list exactly when
\* one of its skus is no key of the level, whatever the stock and wherever
\* the order stands; an order with every sku present that failed Pass 1 is
\* a replenishment order.
C16_BlockedIffMissingSku ==
    (pc \in {"slot", "done"} \/ (pc = "pass2" /\ idx > Len(retry_orders))) =>
        /\ \A i \in 1..Len(orders) :
              Count(slot_orders, orders[i]) > 0 <=> ~AllPresent(orders[i].items, boh_loaded)
        /\ \A i \in 1..Len(retry_orders) :
              AllPresent(retry_orders[i].items, boh_loaded)
                => Count(replen_orders, retry_orders[i]) = 1

\* Pass 2 is over; an order of two lines is blocked although the level has
\* the stock for its first line, and an order short of stock is replenished
C16_Witness ==
    /\ pc = "slot"
    /\ replen_orders # <<>>
    /\ \E i \in 1..Len(slot_orders) :
          LET items == slot_orders[i].items
          IN /\ Len(items) = 2
             /\ items[1].sku \in DOMAIN boh
             /\ boh[items[1].sku] >= items[1].qty
             /\ items[2].sku \notin DOMAIN boh

\* C17: every order unlocked in a slot candidate record is unlocked in the
\* next record too, so the number of unlocked orders never falls as the
\* prefix grows.
C17_UnlockSetsGrow ==
    pc \in {"slot", "done"} =>
        \A k \in 1..(Len(slot_results) - 1) :
            /\ Range(slot_results[k].addn) \subseteq Range(slot_results[k + 1].addn)
            /\ Len(slot_results[k].addn) <= Len(slot_results[k + 1].addn)

\* two records, the first unlocks an order, the second unlocks it and another
C17_Witness ==
    /\ pc = "done"
    /\ Len(slot_results) >= 2
    /\ Len(slot_results[1].addn) = 1
    /\ Len(slot_results[2].addn) = 2

\* C18: in every record an order of the blocked list is unlocked exactly
\* when each of its skus is a key of the Pass-2-final level or one of the
\* record's candidate skus; when the blocked list is not empty the last
\* record unlocks every blocked order.
C18_Unlocked ==
    /\ pc \in {"slot", "done"} =>
          \A k \in 1..Len(slot_results) : \A i \in 1..Len(slot_orders) :
              Count(slot_results[k].addn, slot_orders[i]) > 0 <=>
                  \A j \in 1..Len(slot_orders[i].items) :
                      slot_orders[i].items[j].sku
                        \in DOMAIN boh \cup Range(slot_results[k].skus)
    /\ (pc = "done" /\ slot_orders # <<>>) =>
          /\ slot_results # <<>>
          /\ Last(slot_results).addn = slot_orders

\* check_orders has returned; the first record left a blocked order locked
\* and the last record unlocks both blocked orders
C18_Witness ==
    /\ pc = "done"
    /\ Len(slot_orders) = 2
    /\ Len(slot_results) >= 2
    /\ Len(slot_results[1].addn) < 2
    /\ Last(slot_results).addn = slot_orders

\* no loaded quantity and no order quantity is negative
NonNegativeInputs ==
    /\ \A s \in DOMAIN boh_loaded : boh_loaded[s] >= 0
    /\ \A i \in 1..Len(orders) : \A j \in 1..Len(orders[i].items) :
          orders[i].items[j].qty >= 0

\* C19: the loaded quantities and the order quantities being non-negative,
\* no quantity of the level is negative during Pass 1, and from Pass 2 on a
\* sku's quantity is negative only if a replenishment order requests it.
C19_NegativeOnlyByReplenishment ==
    NonNegativeInputs =>
        /\ pc = "pass1" => \A s \in DOMAIN boh : boh[s] >= 0
        /\ pc \in {"pass2", "slot", "done"} =>
              \A s \in DOMAIN boh :
                  boh[s] < 0 => \E i \in 1..Len(replen_orders) :
                                   QtyOf(replen_orders[i].items, s) > 0

\* Pass 2 is over; replenishment drove one sku negative and another sku,
\* which ready orders emptied, stands at zero
C19_Witness ==
    /\ pc = "slot"
    /\ ready_orders # <<>>
    /\ \E s \in DOMAIN boh : boh[s] < 0
    /\ \E s \in DOMAIN boh : boh[s] = 0 /\ boh_loaded[s] > 0
    /\ NonNegativeInputs

\* the quantity the first n rows give for ship id and sku in all
RECURSIVE RowSum(_, _, _)
RowSum(n, ship_id, sku) ==
    IF n = 0 THEN 0
    ELSE RowSum(n - 1, ship_id, sku)
           + (IF rows[n].ship_id = ship_id /\ rows[n].sku = sku THEN rows[n].qty ELSE 0)

\* the list os of orders holds what the first n rows say: one order per
\* ship id of the rows, and per order one item per sku of its rows, with
\* the sum of the quantities of those rows
Grouped(os, n) ==
    /\ \A i, j \in 1..Len(os) : i # j => os[i].ship_id # os[j].ship_id
    /\ {os[i].ship_id : i \in 1..Len(os)} = {rows[k].ship_id : k \in 1..n}
    /\ \A i \in 1..Len(os) :
          LET items == os[i].items
          IN /\ \A a, b \in 1..Len(items) : a # b => items[a].sku # items[b].sku
             /\ {items[a].sku : a \in 1..Len(items)}
                  = {rows[k].sku : k \in {m \in 1..n : rows[m].ship_id = os[i].ship_id}}
             /\ \A a \in 1..Len(items) :
                   items[a].qty = RowSum(n, os[i].ship_id, items[a].sku)

\* C13: after any rows have been read, each order's items[sku] is the sum of
\* the quantities of its rows for that sku (3 and 4 for one sku give one
\* entry of 7), and there is exactly one order per distinct ship id, in
\* orders_by_id and in the list load_orders returns.
C13_RepeatedLinesAccumulate ==
    /\ pc = "read" => Grouped(orders_by_id, idx - 1)
    /\ pc = "load" => Grouped(orders_by_id, Len(rows))
    /\ (pc \notin {"read", "load"} /\ rows # <<>>) => Grouped(orders, Len(rows))

\* the rows (1, X, 3), (2, Y, 3), (1, X, 4) have been loaded: order 1 has
\* the single item X:7
C13_Witness ==
    /\ pc = "pass1"
    /\ rows = <<[ship_id |-> 1, sku |-> "X", qty |-> 3],
                [ship_id |-> 2, sku |-> "Y", qty |-> 3],
                [ship_id |-> 1, sku |-> "X", qty |-> 4]>>
    /\ orders = <<[ship_id |-> 1, items |-> <<[sku |-> "X", qty |-> 7]>>],
                  [ship_id |-> 2, items |-> <<[sku |-> "Y", qty |-> 3]>>]>>

\* what check_orders gives for the i-th level taken alone, as it was loaded
Alone(i) == check_orders(orders, bohs_loaded[i])

\* what main keeps of check_orders for the i-th level taken alone
AloneStats(i) ==
    [ready |-> Alone(i).ready, replen |-> Alone(i).replen,
     slots |-> Alone(i).slots]

\* C12: a level's run leaves the other levels and the orders as they are:
\* the level being run started as it was loaded and every level not yet run
\* is as it was loaded; when a level's result is recorded, it and the
\* level's final mapping are what the level gives when it is evaluated alone
\* from its loaded state; a recorded result and a finished level's mapping
\* never change afterwards; and no step after the load changes the orders.
\* The results therefore do not depend on the order of the levels.
C12_TiersIsolated ==
    /\ [](/\ Len(bohs) = Len(bohs_loaded)
          /\ \A i \in 1..Len(bohs) :
                (i > Len(order_stats)) => bohs[i] = bohs_loaded[i]
          /\ (pc \in {"pass1", "pass2", "slot", "done"})
                => /\ tier = Len(order_stats) + 1
                   /\ boh_loaded = bohs_loaded[tier])
    /\ [][/\ pc # "load" => orders' = orders
          /\ bohs_loaded' = bohs_loaded
          /\ \A i \in 1..Len(order_stats) :
                order_stats'[i] = order_stats[i] /\ bohs'[i] = bohs[i]
          /\ Len(order_stats') > Len(order_stats) =>
                /\ Len(order_stats') = Len(order_stats) + 1
                /\ order_stats'[tier] = AloneStats(tier)
                /\ bohs'[tier] = Alone(tier).boh]_vars

\* all four levels are done; the first level committed an order that the
\* second, loaded with the same stock, committed too
C12_Witness ==
    /\ pc = "report"
    /\ Len(order_stats) = NumTiers
    /\ bohs_loaded[1] = bohs_loaded[2]
    /\ order_stats[1].ready # <<>>
    /\ order_stats[2].ready = order_stats[1].ready
    /\ bohs[1] # bohs_loaded[1]
    /\ order_stats[3].slots # <<>>

\* C14: when a report is asked for and the destination exists, the run ends
\* with exit status 1, after all four levels have been computed, and the
\* destination holds what it held: no directory or file is made.
C14_ReportCollision ==
    /\ (args_report /\ ExistingDest \subseteq fs) =>
          /\ fs = ExistingDest
          /\ pc # "write"
          /\ pc = "exit" => exit_code = 1
    /\ exit_code = 1 =>
          /\ args_report
          /\ fs = ExistingDest
          /\ Len(order_stats) = NumTiers
          /\ pc = "exit"

\* the run has ended with status 1 on an existing destination, the four
\* levels computed
C14_Witness ==
    /\ pc = "exit"
    /\ exit_code = 1
    /\ args_report
    /\ fs = ExistingDest
    /\ Len(order_stats) = NumTiers
    /\ order_stats[1].ready # <<>>

=============================================================================
